---- MODULE Spec2Model ----
(***************************************************************************)
(* Model of src/main.py: InformationExtractor.extract_information and      *)
(* RAGModel (add_documents, query).                                        *)
(*                                                                         *)
(* Strings are sequences of one-character strings.  A Python dict is a     *)
(* sequence of <<key, value>> pairs with pairwise distinct keys, kept in   *)
(* insertion order (assignment to an existing key keeps its position).     *)
(***************************************************************************)
EXTENDS Integers, Sequences, FiniteSets, TLC

VARIABLES text, pc, firstPass, results,
          model, document_embeddings, documents,
          op, question, top_k, sorted_docs, answer

varsE == <<text, pc, firstPass, results>>
varsR == <<model, document_embeddings, documents, op, question, top_k, sorted_docs, answer>>
vars == <<text, pc, firstPass, results,
          model, document_embeddings, documents,
          op, question, top_k, sorted_docs, answer>>

(* ------------------------------ bounds --------------------------------- *)
MaxLen == 7
MaxDocs == 2
MaxTopK == 3
MaxNeg == 2

Alphabet == {"a", ":", " ", "\n"}

(* ------------------------- Python dict helpers ------------------------- *)
DictKeys(d) == {d[i][1] : i \in 1..Len(d)}

DictHas(d, k) == \E i \in 1..Len(d) : d[i][1] = k

DictGet(d, k) == d[CHOOSE i \in 1..Len(d) : d[i][1] = k][2]

DictSetFirstWins(d, k, v) ==
  IF DictHas(d, k) THEN d ELSE Append(d, <<k, v>>)

DictSet(d, k, v) ==
  IF DictHas(d, k)
    THEN [i \in 1..Len(d) |-> IF d[i][1] = k THEN <<k, v>> ELSE d[i]]
    ELSE Append(d, <<k, v>>)

(* ------------------------- string primitives --------------------------- *)
IsSpace(c) == c \in {" ", "\n", "\t", "\r"}

RECURSIVE LStrip(_)
LStrip(s) ==
  IF s = <<>> THEN <<>>
  ELSE IF IsSpace(Head(s)) THEN LStrip(Tail(s)) ELSE s

RECURSIVE RStrip(_)
RStrip(s) ==
  IF s = <<>> THEN <<>>
  ELSE IF IsSpace(s[Len(s)]) THEN RStrip(SubSeq(s, 1, Len(s) - 1)) ELSE s

Strip(s) == RStrip(LStrip(s))

(* str.splitlines(): cut at every line break, no empty last line *)
RECURSIVE SplitFrom(_, _, _)
SplitFrom(s, i, cur) ==
  IF i > Len(s) THEN (IF cur = <<>> THEN <<>> ELSE <<cur>>)
  ELSE IF s[i] = "\n" THEN <<cur>> \o SplitFrom(s, i + 1, <<>>)
  ELSE SplitFrom(s, i + 1, Append(cur, s[i]))

splitlines(s) == SplitFrom(s, 1, <<>>)

\* ---- re.search(r'(.+?):\s*(.*)', line), line 90 ----
NoMatch == [matched |-> FALSE, group1 |-> <<>>, group2 |-> <<>>]

(* '.' matches every character but the line feed *)
Dot(c) == c # "\n"

\* the ends e of the lazy group 1 started at s: one or more Dot characters,
\* followed by a colon at e + 1
LazyEnds(line, s) ==
  {e \in s..(Len(line) - 1) :
      /\ \A j \in s..e : Dot(line[j])
      /\ line[e + 1] = ":"}

RECURSIVE SkipSpaces(_, _)
SkipSpaces(line, i) ==
  IF i <= Len(line) /\ IsSpace(line[i]) THEN SkipSpaces(line, i + 1) ELSE i

\* greedy group 2 from i: the longest run of Dot characters
RECURSIVE DotRunEnd(_, _)
DotRunEnd(line, i) ==
  IF i <= Len(line) /\ Dot(line[i]) THEN DotRunEnd(line, i + 1) ELSE i - 1

MatchAtGreedy(line, s) ==
  LET e == CHOOSE x \in LazyEnds(line, s) : \A y \in LazyEnds(line, s) : x >= y
      v == SkipSpaces(line, e + 2)
  IN [matched |-> TRUE,
      group1 |-> SubSeq(line, s, e),
      group2 |-> SubSeq(line, v, DotRunEnd(line, v))]

MatchAt(line, s) ==
  LET e == CHOOSE x \in LazyEnds(line, s) : \A y \in LazyEnds(line, s) : x <= y
      v == SkipSpaces(line, e + 2)
  IN [matched |-> TRUE,
      group1 |-> SubSeq(line, s, e),
      group2 |-> SubSeq(line, v, DotRunEnd(line, v))]

re_search(line) ==
  LET starts == {s \in 1..Len(line) : LazyEnds(line, s) # {}}
  IN IF starts = {} THEN NoMatch
     ELSE MatchAt(line, CHOOSE s \in starts : \A t \in starts : s <= t)

(* ------------------------- extract_information ------------------------- *)
(* first loop, lines 88-94 *)
RECURSIVE FirstLoop(_, _, _)
FirstLoop(lines, i, res) ==
  IF i > Len(lines) THEN res
  ELSE LET match == re_search(lines[i])
       IN IF match.matched
            THEN FirstLoop(lines, i + 1,
                           DictSet(res, Strip(match.group1), Strip(match.group2)))
            ELSE FirstLoop(lines, i + 1, res)

SecondLoopGuardTrimmed(line, res) == Strip(line) # <<>> /\ ~DictHas(res, line)

(* 'if line and line not in results', line 98 *)
SecondLoopGuard(line, res) == line # <<>> /\ ~DictHas(res, line)

(* second loop, lines 97-99 *)
RECURSIVE SecondLoop(_, _, _)
SecondLoop(lines, i, res) ==
  IF i > Len(lines) THEN res
  ELSE IF SecondLoopGuard(lines[i], res)
    THEN SecondLoop(lines, i + 1, DictSet(res, lines[i], <<>>))
    ELSE SecondLoop(lines, i + 1, res)

extract_information(t) ==
  LET lines == splitlines(t)
  IN SecondLoop(lines, 1, FirstLoop(lines, 1, <<>>))

(* ------------------------------ inputs --------------------------------- *)
RECURSIVE StringsUpTo(_)
StringsUpTo(n) ==
  IF n = 0 THEN {<<>>}
  ELSE LET shorter == StringsUpTo(n - 1)
       IN shorter \cup {Append(s, c) : s \in {x \in shorter : Len(x) = n - 1}, c \in Alphabet}

DellText == <<"N","a","m","e",":"," ","D","e","l","l","\n",
              "P","r","i","c","e",":"," ","5","0","0">>

Texts == StringsUpTo(MaxLen) \cup {DellText}

(* ---------------------- extraction specification ----------------------- *)
NoAnswer == [status |-> "none", value |-> <<>>]

RagIdle ==
  /\ model = <<>>
  /\ document_embeddings = <<>>
  /\ documents = <<>>
  /\ op = "none"
  /\ question = <<>>
  /\ top_k = 0
  /\ sorted_docs = <<>>
  /\ answer = NoAnswer

InitExtract ==
  /\ text \in Texts
  /\ pc = "start"
  /\ firstPass = <<>>
  /\ results = <<>>
  /\ RagIdle

ExtractInformation ==
  /\ pc = "start"
  /\ firstPass' = FirstLoop(splitlines(text), 1, <<>>)
  /\ results' = extract_information(text)
  /\ pc' = "done"
  /\ UNCHANGED text
  /\ UNCHANGED varsR

NextExtract == ExtractInformation

SpecExtract == InitExtract /\ [][NextExtract]_vars

(* ------------------- properties of extract_information ----------------- *)
Lines == splitlines(text)

ColonsOf(line) == {p \in 1..Len(line) : line[p] = ":"}

HasColon(line) == ColonsOf(line) # {}

(* the very first colon of the line *)
FirstColon(line) == CHOOSE p \in ColonsOf(line) : \A q \in ColonsOf(line) : p <= q

KeyAt(line, c) == Strip(SubSeq(line, 1, c - 1))

ValueAt(line, c) == Strip(SubSeq(line, c + 1, Len(line)))

(* the line matches the key:value pattern: a colon after at least one character *)
MatchesPattern(line) == \E p \in ColonsOf(line) : p >= 2

(* the first colon that has at least one character before it *)
SplitColon(line) ==
  CHOOSE p \in ColonsOf(line) : p >= 2 /\ \A q \in ColonsOf(line) : q >= 2 => p <= q

WellFormedLine(line) ==
  /\ HasColon(line)
  /\ KeyAt(line, FirstColon(line)) # <<>>
  /\ ValueAt(line, FirstColon(line)) # <<>>

OnlyWellFormedLines ==
  /\ Lines # <<>>
  /\ \A i \in 1..Len(Lines) : WellFormedLine(Lines[i])
  /\ \A i, j \in 1..Len(Lines) :
       i # j => KeyAt(Lines[i], FirstColon(Lines[i])) # KeyAt(Lines[j], FirstColon(Lines[j]))

DellRecord == << <<(<<"N","a","m","e">>), (<<"D","e","l","l">>)>>,
                 <<(<<"P","r","i","c","e">>), (<<"5","0","0">>)>> >>

\* C1: for a text made only of well-formed 'key: value' lines with pairwise
\* distinct keys, the returned record has exactly one entry per line, keyed
\* and valued by the trimmed text before and after the line's first colon;
\* 'Name: Dell\nPrice: 500' yields exactly {Name: Dell, Price: 500}.
C1_OneEntryPerLine ==
  pc = "done" =>
    /\ OnlyWellFormedLines =>
         /\ Len(results) = Len(Lines)
         /\ \A i \in 1..Len(Lines) :
              LET c == FirstColon(Lines[i])
              IN /\ DictHas(results, KeyAt(Lines[i], c))
                 /\ DictGet(results, KeyAt(Lines[i], c)) = ValueAt(Lines[i], c)
    /\ text = DellText => results = DellRecord

(* lines i < j match with the same key and different values, j the last of that key *)
DuplicateKeyPair(i, j) ==
  /\ i < j
  /\ MatchesPattern(Lines[i])
  /\ MatchesPattern(Lines[j])
  /\ KeyAt(Lines[i], SplitColon(Lines[i])) = KeyAt(Lines[j], SplitColon(Lines[j]))
  /\ ValueAt(Lines[i], SplitColon(Lines[i])) # ValueAt(Lines[j], SplitColon(Lines[j]))
  /\ \A k \in (j + 1)..Len(Lines) :
       MatchesPattern(Lines[k]) =>
         KeyAt(Lines[k], SplitColon(Lines[k])) # KeyAt(Lines[j], SplitColon(Lines[j]))

\* C7: when two lines match the key:value pattern with the same trimmed key
\* and different values, the returned record maps that key to the value of
\* the later line (the last line carrying that key).
C7_LastWriteWins ==
  pc = "done" =>
    \A i, j \in 1..Len(Lines) :
      DuplicateKeyPair(i, j) =>
        /\ DictHas(results, KeyAt(Lines[j], SplitColon(Lines[j])))
        /\ DictGet(results, KeyAt(Lines[j], SplitColon(Lines[j])))
             = ValueAt(Lines[j], SplitColon(Lines[j]))

C7_Witness ==
  /\ pc = "done"
  /\ \E i, j \in 1..Len(Lines) :
       /\ DuplicateKeyPair(i, j)
       /\ KeyAt(Lines[j], SplitColon(Lines[j])) = <<"a">>
       /\ ValueAt(Lines[i], SplitColon(Lines[i])) # <<>>
       /\ DictGet(results, <<"a">>) = ValueAt(Lines[j], SplitColon(Lines[j]))

(* line i is the last matching line whose key, taken at colon c(line), is its own *)
LastOfKeyFirstColon(i) ==
  \A k \in (i + 1)..Len(Lines) :
    MatchesPattern(Lines[k]) =>
      KeyAt(Lines[k], FirstColon(Lines[k])) # KeyAt(Lines[i], FirstColon(Lines[i]))

LastOfKeySplitColon(i) ==
  \A k \in (i + 1)..Len(Lines) :
    MatchesPattern(Lines[k]) =>
      KeyAt(Lines[k], SplitColon(Lines[k])) # KeyAt(Lines[i], SplitColon(Lines[i]))

\* C8 as stated: every line that matches the key:value pattern is split at
\* its first colon, also when the line starts with a colon or has several
\* colons: the trimmed text before the first colon is a key of the record
\* and (for the last line of that key) maps to the trimmed text after it.
C8_SplitAtFirstColon ==
  pc = "done" =>
    \A i \in 1..Len(Lines) :
      MatchesPattern(Lines[i]) =>
        LET c == FirstColon(Lines[i])
        IN /\ DictHas(results, KeyAt(Lines[i], c))
           /\ LastOfKeyFirstColon(i) =>
                DictGet(results, KeyAt(Lines[i], c)) = ValueAt(Lines[i], c)

\* C8 amended: every line that matches the key:value pattern is split at the
\* first colon that has at least one character before it: the trimmed text
\* before that colon is a key of the record and (for the last line of that
\* key) maps to the trimmed text after it; a leading colon belongs to the key.
C8_SplitAtFirstPrecededColon ==
  pc = "done" =>
    \A i \in 1..Len(Lines) :
      MatchesPattern(Lines[i]) =>
        LET c == SplitColon(Lines[i])
        IN /\ DictHas(results, KeyAt(Lines[i], c))
           /\ LastOfKeySplitColon(i) =>
                DictGet(results, KeyAt(Lines[i], c)) = ValueAt(Lines[i], c)

C8_Witness ==
  /\ pc = "done"
  /\ \E i \in 1..Len(Lines) :
       /\ MatchesPattern(Lines[i])
       /\ Lines[i][1] = ":"
       /\ Cardinality(ColonsOf(Lines[i])) >= 3
       /\ DictGet(results, KeyAt(Lines[i], SplitColon(Lines[i]))) # <<>>

(* the keys the second pass added to the record of the first pass *)
InsertedBySecondPass == DictKeys(results) \ DictKeys(firstPass)

WhitespaceOnly(line) == line # <<>> /\ Strip(line) = <<>>

FirstPassKept ==
  \A k \in DictKeys(firstPass) :
    DictHas(results, k) /\ DictGet(results, k) = DictGet(firstPass, k)

\* C9 as stated: the second pass inserts a line as a key with the empty
\* value exactly when the line is non-empty after trimming and its exact
\* text is not already a key; a whitespace-only line is never inserted by
\* the second pass; no entry of the first pass has its value changed.
C9_SecondPassTrimmed ==
  pc = "done" =>
    /\ InsertedBySecondPass =
         {Lines[i] : i \in {n \in 1..Len(Lines) :
              Strip(Lines[n]) # <<>> /\ ~DictHas(firstPass, Lines[n])}}
    /\ \A k \in InsertedBySecondPass : DictGet(results, k) = <<>>
    /\ \A i \in 1..Len(Lines) :
         WhitespaceOnly(Lines[i]) => Lines[i] \notin InsertedBySecondPass
    /\ FirstPassKept

\* C9 amended: the second pass inserts a line as a key with the empty value
\* exactly when the line is non-empty (untrimmed, so a whitespace-only line
\* counts as non-empty and is inserted) and its exact text is not already a
\* key; no entry of the first pass has its value changed.
C9_SecondPassNonEmpty ==
  pc = "done" =>
    /\ InsertedBySecondPass =
         {Lines[i] : i \in {n \in 1..Len(Lines) :
              Lines[n] # <<>> /\ ~DictHas(firstPass, Lines[n])}}
    /\ \A k \in InsertedBySecondPass : DictGet(results, k) = <<>>
    /\ \A i \in 1..Len(Lines) :
         WhitespaceOnly(Lines[i]) => Lines[i] \in InsertedBySecondPass
    /\ FirstPassKept

C9_Witness ==
  /\ pc = "done"
  /\ firstPass # <<>>
  /\ \E i \in 1..Len(Lines) :
       WhitespaceOnly(Lines[i]) /\ Lines[i] \in InsertedBySecondPass
  /\ \E i \in 1..Len(Lines) :
       Lines[i] # <<>> /\ DictHas(firstPass, Lines[i])

(* ------------------------------- RAGModel ------------------------------ *)
(* the embedding vectors the sentence encoder can return *)
Vectors == {<<0, 0>>, <<1, 0>>, <<2, 0>>, <<-1, 1>>}

(* the texts main() feeds to extract_information (line 197) *)
SampleTexts == { <<"a", ":", "x">>,
                 <<"a", ":", " ", "x">>,
                 <<"a", ":", "x", "\n", "b", ":", "x">> }

(* the records main() passes to add_documents (lines 197, 203) *)
SampleRecords == {extract_information(t) : t \in SampleTexts}

(* f"{k}: {v}" *)
FormatEntry(k, v) == k \o <<":", " ">> \o v

(* the generator of line 132: the formatted entries whose value is truthy *)
RECURSIVE FormattedEntries(_, _)
FormattedEntries(content, i) ==
  IF i > Len(content) THEN <<>>
  ELSE IF content[i][2] # <<>>
    THEN <<FormatEntry(content[i][1], content[i][2])>> \o FormattedEntries(content, i + 1)
    ELSE FormattedEntries(content, i + 1)

(* ' '.join(parts) *)
RECURSIVE JoinSpace(_)
JoinSpace(parts) ==
  IF parts = <<>> THEN <<>>
  ELSE IF Len(parts) = 1 THEN parts[1]
  ELSE parts[1] \o <<" ">> \o JoinSpace(Tail(parts))

RepText(content) == JoinSpace(FormattedEntries(content, 1))

Questions == {RepText(r) : r \in SampleRecords} \cup {<<"x">>}

(* self.model.encode([t])[0]: one fixed vector per text *)
encode(t) == model[t]

Dot2(a, b) == a[1] * b[1] + a[2] * b[2]

DotSimilarity(a, b) == [num |-> Dot2(a, b), den2 |-> 1]

(* sklearn cosine_similarity: rows are normalised (a zero row stays zero),  *)
(* then multiplied; kept exact as num / sqrt(den2)                          *)
cosine_similarity(a, b) ==
  IF Dot2(a, a) = 0 \/ Dot2(b, b) = 0
    THEN [num |-> 0, den2 |-> 1]
    ELSE [num |-> Dot2(a, b), den2 |-> Dot2(a, a) * Dot2(b, b)]

SignedSquare(x) == IF x >= 0 THEN x * x ELSE 0 - (x * x)

(* x > y on similarities *)
SimGreater(x, y) == SignedSquare(x.num) * y.den2 > SignedSquare(y.num) * x.den2

SimEqual(x, y) == SignedSquare(x.num) * y.den2 = SignedSquare(y.num) * x.den2

(* loop of add_documents, lines 130-135; index is i - 1 *)
RECURSIVE AddLoop(_, _, _)
AddLoop(docs, i, st) ==
  IF i > Len(docs) THEN st
  ELSE AddLoop(docs, i + 1,
         [embeddings |-> DictSet(st.embeddings, i - 1, encode(RepText(docs[i]))),
          documents |-> DictSet(st.documents, i - 1, docs[i])])

(* loop of query, lines 151-157 *)
Similarities(q_emb, embeddings) ==
  [i \in 1..Len(embeddings) |->
     <<embeddings[i][1], cosine_similarity(q_emb, embeddings[i][2])>>]

InsertDescTiesFirst(sorted, item) ==
  LET before == {n \in 1..Len(sorted) :
                   \A m \in 1..n : SimGreater(sorted[m][2], item[2])}
      cut == Cardinality(before)
  IN SubSeq(sorted, 1, cut) \o <<item>> \o SubSeq(sorted, cut + 1, Len(sorted))

(* stable insertion for a descending order: item goes behind every element *)
(* whose similarity is greater or equal                                    *)
InsertDesc(sorted, item) ==
  LET before == {n \in 1..Len(sorted) :
                   \A m \in 1..n : ~SimGreater(item[2], sorted[m][2])}
      cut == Cardinality(before)
  IN SubSeq(sorted, 1, cut) \o <<item>> \o SubSeq(sorted, cut + 1, Len(sorted))

(* sorted(items, key=lambda x: x[1], reverse=True), line 159 *)
RECURSIVE SortedDesc(_, _, _)
SortedDesc(items, i, acc) ==
  IF i > Len(items) THEN acc
  ELSE SortedDesc(items, i + 1, InsertDesc(acc, items[i]))

Min(a, b) == IF a <= b THEN a ELSE b

Max(a, b) == IF a >= b THEN a ELSE b

PySliceFromOne(seq, k) ==
  IF k >= 0 THEN SubSeq(seq, 2, Min(k, Len(seq)))
            ELSE SubSeq(seq, 2, Max(Len(seq) + k, 0))

(* seq[:k] of Python, negative k counting from the end *)
PySlice(seq, k) ==
  IF k >= 0 THEN SubSeq(seq, 1, Min(k, Len(seq)))
            ELSE SubSeq(seq, 1, Max(Len(seq) + k, 0))

(* lines 161-165 *)
CollectResults(top, docs) == [i \in 1..Len(top) |-> DictGet(docs, top[i][1])]

RECURSIVE ListsUpTo(_)
ListsUpTo(n) ==
  IF n = 0 THEN {<<>>}
  ELSE LET shorter == ListsUpTo(n - 1)
       IN shorter \cup {Append(l, r) : l \in {x \in shorter : Len(x) = n - 1},
                                       r \in SampleRecords}

DocLists == ListsUpTo(MaxDocs)

TopKs == (0 - MaxNeg)..MaxTopK

ExtractIdle ==
  /\ text = <<>>
  /\ pc = "idle"
  /\ firstPass = <<>>
  /\ results = <<>>

(* RAGModel.__init__ *)
InitRAG ==
  /\ model \in [Questions -> Vectors]
  /\ document_embeddings = <<>>
  /\ documents = <<>>
  /\ op = "none"
  /\ question = <<>>
  /\ top_k = 0
  /\ sorted_docs = <<>>
  /\ answer = NoAnswer
  /\ ExtractIdle

add_documents ==
  \E docs \in DocLists :
    LET st == AddLoop(docs, 1, [embeddings |-> document_embeddings,
                                documents |-> documents])
    IN /\ document_embeddings' = st.embeddings
       /\ documents' = st.documents
       /\ op' = "add_documents"
       /\ question' = <<>>
       /\ top_k' = 0
       /\ sorted_docs' = <<>>
       /\ answer' = NoAnswer
       /\ UNCHANGED <<model, text, pc, firstPass, results>>

(* the entries of d whose key is not among the indices of top *)
DictWithout(d, top) ==
  LET gone == {top[i][1] : i \in 1..Len(top)}
      keep == {i \in 1..Len(d) : d[i][1] \notin gone}
      nth(n) == CHOOSE i \in keep : Cardinality({j \in keep : j <= i}) = n
  IN [n \in 1..Cardinality(keep) |-> d[nth(n)]]

queryPopping ==
  \E q \in Questions, k \in TopKs :
    LET similarities == Similarities(encode(q), document_embeddings)
        ranked == SortedDesc(similarities, 1, <<>>)
    IN /\ question' = q
       /\ top_k' = k
       /\ sorted_docs' = ranked
       /\ answer' = [status |-> "ok",
                     value |-> CollectResults(PySlice(ranked, k), documents)]
       /\ op' = "query"
       /\ documents' = DictWithout(documents, PySlice(ranked, k))
       /\ document_embeddings' = DictWithout(document_embeddings, PySlice(ranked, k))
       /\ UNCHANGED model
       /\ UNCHANGED <<text, pc, firstPass, results>>

query ==
  \E q \in Questions, k \in TopKs :
    LET similarities == Similarities(encode(q), document_embeddings)
        ranked == SortedDesc(similarities, 1, <<>>)
    IN /\ question' = q
       /\ top_k' = k
       /\ sorted_docs' = ranked
       /\ answer' = [status |-> "ok",
                     value |-> CollectResults(PySlice(ranked, k), documents)]
       /\ op' = "query"
       /\ UNCHANGED <<model, document_embeddings, documents>>
       /\ UNCHANGED <<text, pc, firstPass, results>>

NextRAG == add_documents \/ query

SpecRAG == InitRAG /\ [][NextRAG]_vars

(* ------------------------ properties of RAGModel ----------------------- *)
StoredIndices == DictKeys(documents)

(* similarity of the stored document idx to the question, from the stored vector *)
SimOf(idx) == cosine_similarity(model[question], DictGet(document_embeddings, idx))

(* document index behind position i of the returned list *)
RankedIndex(i) == sorted_docs[i][1]

AnswerFollowsRanking ==
  /\ Len(answer.value) <= Len(sorted_docs)
  /\ \A i \in 1..Len(answer.value) :
       /\ RankedIndex(i) \in StoredIndices
       /\ answer.value[i] = DictGet(documents, RankedIndex(i))

RankedOrder(n) ==
  \A i, j \in 1..n :
    i < j =>
      /\ ~SimGreater(SimOf(RankedIndex(j)), SimOf(RankedIndex(i)))
      /\ SimEqual(SimOf(RankedIndex(i)), SimOf(RankedIndex(j)))
           => RankedIndex(i) < RankedIndex(j)

\* C2: a query with a negative top_k is rejected with a validation error;
\* it returns no list of records and top_k is not reinterpreted.
C2_NegativeTopKRejected ==
  (op = "query" /\ top_k < 0) => (answer.status = "error" /\ answer.value = <<>>)

\* C3: for every top_k >= 0 the list returned by query is ordered by
\* non-increasing cosine similarity to the question, and returned records of
\* equal similarity appear in ascending order of document index.
C3_RankedDescendingStable ==
  (op = "query" /\ top_k >= 0) =>
    /\ answer.status = "ok"
    /\ AnswerFollowsRanking
    /\ RankedOrder(Len(answer.value))

C3_Witness ==
  /\ op = "query"
  /\ top_k >= 2
  /\ Len(answer.value) >= 2
  /\ \E i \in 1..(Len(answer.value) - 1) :
       /\ SimEqual(SimOf(RankedIndex(i)), SimOf(RankedIndex(i + 1)))
       /\ answer.value[i] # answer.value[i + 1]
       /\ DictGet(document_embeddings, RankedIndex(i))
            # DictGet(document_embeddings, RankedIndex(i + 1))

(* the entries of a record that have a non-empty value, in record order *)
NonEmptyEntries(rec) ==
  LET keep == {i \in 1..Len(rec) : rec[i][2] # <<>>}
      nth(n) == CHOOSE i \in keep : Cardinality({j \in keep : j <= i}) = n
  IN [n \in 1..Cardinality(keep) |-> rec[nth(n)]]

RECURSIVE RenderEntries(_, _)
RenderEntries(entries, n) ==
  IF n = 0 THEN <<>>
  ELSE RenderEntries(entries, n - 1)
         \o (IF n > 1 THEN <<" ">> ELSE <<>>)
         \o entries[n][1] \o <<":", " ">> \o entries[n][2]

RepresentativeString(rec) ==
  RenderEntries(NonEmptyEntries(rec), Len(NonEmptyEntries(rec)))

\* C4 as stated: a query whose question is the representative string of a
\* stored document returns that document's record at position 0 for every
\* top_k >= 1, also when another stored document has the same
\* representative string.
C4_OwnDocumentFirst ==
  (op = "query" /\ top_k >= 1) =>
    \A d \in StoredIndices :
      question = RepresentativeString(DictGet(documents, d)) =>
        /\ answer.value # <<>>
        /\ answer.value[1] = DictGet(documents, d)

(* the smallest stored index whose similarity to the question equals that of d *)
FirstTied(d) ==
  CHOOSE m \in StoredIndices :
    /\ SimEqual(SimOf(m), SimOf(d))
    /\ \A j \in StoredIndices : SimEqual(SimOf(j), SimOf(d)) => m <= j

\* C4 amended: a query whose question is the representative string of a
\* stored document d, with top_k >= 1, finds no stored document more similar
\* than d and returns at position 0 the record of the lowest-index stored
\* document whose similarity equals that of d; this is the record of d itself
\* unless a document of smaller index (one with the same representative
\* string, for instance) is equally similar.
C4_OwnDocumentFirstAmongTies ==
  (op = "query" /\ top_k >= 1) =>
    \A d \in StoredIndices :
      question = RepresentativeString(DictGet(documents, d)) =>
        /\ answer.value # <<>>
        /\ \A j \in StoredIndices : ~SimGreater(SimOf(j), SimOf(d))
        /\ answer.value[1] = DictGet(documents, FirstTied(d))
        /\ (\A j \in StoredIndices : j < d => ~SimEqual(SimOf(j), SimOf(d)))
             => answer.value[1] = DictGet(documents, d)

C4_Witness ==
  /\ op = "query"
  /\ top_k >= 1
  /\ \E d, e \in StoredIndices :
       /\ e < d
       /\ question = RepresentativeString(DictGet(documents, d))
       /\ question = RepresentativeString(DictGet(documents, e))
       /\ DictGet(documents, d) # DictGet(documents, e)
       /\ answer.value[1] = DictGet(documents, e)
       /\ Dot2(model[question], model[question]) > 0

\* C5: once add_documents has created the entry of a document index, no
\* later add_documents or query call changes the vector or the record
\* stored under that index.
C5_EntriesNeverChange ==
  [][\A i \in StoredIndices :
        /\ DictHas(documents', i)
        /\ DictGet(documents', i) = DictGet(documents, i)
        /\ DictHas(document_embeddings', i)
        /\ DictGet(document_embeddings', i) = DictGet(document_embeddings, i)]_vars

\* C6: for an index of n documents and top_k > n, query raises no error and
\* returns exactly n records, one for each stored document index, in ranked
\* order.
C6_TopKBeyondSizeReturnsAll ==
  (op = "query" /\ top_k > Len(documents)) =>
    /\ answer.status = "ok"
    /\ Len(answer.value) = Len(documents)
    /\ Len(sorted_docs) = Len(documents)
    /\ {RankedIndex(i) : i \in 1..Len(sorted_docs)} = StoredIndices
    /\ AnswerFollowsRanking
    /\ RankedOrder(Len(answer.value))

C6_Witness ==
  /\ op = "query"
  /\ Len(documents) >= 2
  /\ top_k > Len(documents)
  /\ Len(answer.value) = Len(documents)
  /\ \E i \in 1..(Len(answer.value) - 1) :
       SimGreater(SimOf(RankedIndex(i)), SimOf(RankedIndex(i + 1)))

\* C10: query is read-only on the index (documents and document_embeddings
\* are the same after query as before), and after any sequence of
\* add_documents and query calls both maps have the same document indices.
C10_QueryReadOnly ==
  /\ [][op' = "query" =>
          (documents' = documents /\ document_embeddings' = document_embeddings)]_vars
  /\ [](DictKeys(documents) = DictKeys(document_embeddings))

C10_Witness ==
  /\ op = "query"
  /\ Len(documents) >= 2
  /\ Len(document_embeddings) = Len(documents)
  /\ answer.value # <<>>

====
